---------------------------- MODULE Spec2Model ----------------------------
(* Model of src/src/main.rs: the POST /api/compute-info/pods handler and  *)
(* get_pods_info, the concurrent per-namespace pod listing that fills one *)
(* shared Mutex<Vec<PodComputeInfo>>.                                     *)
(*                                                                        *)
(* Option<T> is modelled as a sequence of length 0 (None) or 1 (Some).    *)
(* A BTreeMap<String, String> is a function with a set of strings as its  *)
(* domain.  A panic (an unwrap() on None / Err) unwinds through           *)
(* for_each_concurrent and get_pods_info: every namespace future lives in *)
(* the one task that polls the stream combinator.                         *)
EXTENDS Integers, Sequences, FiniteSets, TLC

(* ------------------------------ bounds ------------------------------ *)

\* longest namespace list of a request
MaxNs == 2

\* most pods the cluster returns over all list responses of one request
MaxPods == 3

(* --------------------------- Option<T> ------------------------------ *)

None == << >>

Some(x) == << x >>

IsNone(o) == Len(o) = 0

IsSome(o) == Len(o) = 1

\* Option::unwrap on a Some
Unwrap(o) == o[1]

EmptyMap == << >>

(* ------------------- raw pods of the cluster API -------------------- *)

Namespaces == {"a", "b"}

GoodRequests == ("cpu" :> "500m") @@ ("memory" :> "256Mi")

GoodLimits == ("cpu" :> "1") @@ ("memory" :> "512Mi")

RawContainer(n, img, res) == [name |-> n, image |-> img, resources |-> res]

Resources(req, lim) == [requests |-> req, limits |-> lim]

AppContainer ==
    RawContainer("app", Some("app:1"), Some(Resources(Some(GoodRequests), Some(GoodLimits))))

SidecarContainer ==
    RawContainer("sidecar", None,
                 Some(Resources(Some(("cpu" :> "100m") @@ ("memory" :> "64Mi")), None)))

\* a k8s Pod as far as the code reads it; the namespace is filled in by the
\* list response
RawPod(n, st, lab, node, cs) ==
    [name |-> Some(n), namespace |-> None, status |-> st, labels |-> lab,
     spec |-> Some([node_name |-> node, containers |-> cs])]

Phase(p) == Some([phase |-> Some(p)])

PodTemplates ==
    { RawPod("web", Phase("Running"), Some("maintainer" :> "team-a"), Some("node-1"),
             << AppContainer >>),
      RawPod("db", Phase("Running"), None, None, << AppContainer, SidecarContainer >>),
      RawPod("job", Phase("Pending"), Some("tier" :> "batch"), None, << AppContainer >>),
      RawPod("nostatus", None, None, None, << AppContainer >>),
      RawPod("norequests", Phase("Running"), None, Some("node-1"),
             << AppContainer, RawContainer("bare", None, Some(Resources(None, Some(GoodLimits)))) >>) }

(* ---------------------- BTreeMap and iterators ---------------------- *)

\* BTreeMap::get
MapGet(m, k) == IF k \in DOMAIN m THEN Some(m[k]) ELSE None

\* Option::unwrap_or
UnwrapOr(o, d) == IF IsSome(o) THEN Unwrap(o) ELSE d

(* ------------------ the filter closure, line 84-86 ------------------ *)

\* pod.status.as_ref().unwrap().phase.as_ref().unwrap() panics
FilterPanics(pod) == IsNone(pod.status) \/ IsNone(Unwrap(pod.status).phase)

\* mutant: the filter keeps every pod that has a phase
PhaseNotCompared(pod) == TRUE

\* mutant: the comparison inverted
PhaseIsNotRunning(pod) == Unwrap(Unwrap(pod.status).phase) # "Running"

\* the phase compared with "Running"; only evaluated when the unwraps succeed
PhaseIsRunning(pod) == Unwrap(Unwrap(pod.status).phase) = "Running"

(* ---------------- the loop body, lines 87-137 ----------------------- *)

\* one of the unwraps of lines 104-123 panics
ContainerPanics(c) ==
    \/ IsNone(c.resources)
    \/ IsNone(Unwrap(c.resources).requests)
    \/ IsNone(MapGet(Unwrap(Unwrap(c.resources).requests), "cpu"))
    \/ IsNone(MapGet(Unwrap(Unwrap(c.resources).requests), "memory"))

\* mutant: the limits are read where the container declares them
ToContainerFromLimits(c) ==
    LET res == Unwrap(c.resources)
        src == IF IsSome(res.limits) THEN Unwrap(res.limits) ELSE Unwrap(res.requests)
    IN  [name |-> c.name,
         image |-> c.image,
         compute_resources |->
            [requested_cpu |-> Unwrap(MapGet(src, "cpu")),
             requested_memory |-> Unwrap(MapGet(src, "memory"))]]

\* the Container built by the map closure, lines 100-125
ToContainer(c) ==
    [name |-> c.name,
     image |-> c.image,
     compute_resources |->
        [requested_cpu |-> Unwrap(MapGet(Unwrap(Unwrap(c.resources).requests), "cpu")),
         requested_memory |-> Unwrap(MapGet(Unwrap(Unwrap(c.resources).requests), "memory"))]]

\* raw_containers.iter().map(..).collect(), lines 98-126
ToContainers(cs) == [k \in 1..Len(cs) |-> ToContainer(cs[k])]

\* some unwrap of lines 87-137 panics
NormalizePanics(pod) ==
    \/ IsNone(pod.spec)
    \/ \E k \in 1..Len(Unwrap(pod.spec).containers) :
          ContainerPanics(Unwrap(pod.spec).containers[k])
    \/ IsNone(pod.name)
    \/ IsNone(pod.namespace)

\* mutant: the pod's optional label map is passed on as it is
ToPodComputeInfoLabelsAsIs(pod) ==
    LET labels == UnwrapOr(pod.labels, EmptyMap)
    IN  [name |-> Unwrap(pod.name),
         namespace |-> Unwrap(pod.namespace),
         node_name |-> UnwrapOr(Unwrap(pod.spec).node_name, ""),
         maintainer |-> UnwrapOr(MapGet(labels, "maintainer"), ""),
         containers |-> ToContainers(Unwrap(pod.spec).containers),
         metadata |-> Some([labels |-> pod.labels])]

\* the PodComputeInfo of lines 128-137
ToPodComputeInfo(pod) ==
    LET labels == UnwrapOr(pod.labels, EmptyMap)
    IN  [name |-> Unwrap(pod.name),
         namespace |-> Unwrap(pod.namespace),
         node_name |-> UnwrapOr(Unwrap(pod.spec).node_name, ""),
         maintainer |-> UnwrapOr(MapGet(labels, "maintainer"), ""),
         containers |-> ToContainers(Unwrap(pod.spec).containers),
         metadata |-> Some([labels |-> Some(labels)])]

(* ------------------------- list responses --------------------------- *)

\* the sequences over S of length at most n without a repeated element
\* (pod names are unique within a namespace)
DistinctSeqs(S, n) ==
    UNION { { s \in [1..k -> S] : \A x, y \in 1..k : x # y => s[x] # s[y] } : k \in 0..n }

\* the items of a successful list of namespace ns
ListItems(ns, tpls) == [k \in DOMAIN tpls |-> [tpls[k] EXCEPT !.namespace = Some(ns)]]

(* ------------------------------ state ------------------------------- *)

VARIABLES
    namespaces,  \* the request's namespaces, the stream of line 76
    pc,          \* where the request is: start, fanout, returned, failed, panicked,
                 \* responded, aborted
    next,        \* index of the next namespace the stream yields
    task,        \* the namespace futures, one per occurrence pulled from the stream
    current,     \* the future being polled (0: none); futures share one task
    pods,        \* the Vec behind Arc<Mutex<..>>, line 75
    writers,     \* history: writers[k] is the future that pushed pods[k]
    locked,      \* holder of the MutexGuard (0: unlocked)
    arc,         \* strong count of the Arc of line 75
    queries,     \* history: the namespaces of the list calls issued, line 81
    log,         \* what eprintln! wrote, line 141
    result,      \* the value get_pods_info returned: None until it returns Ok
    maintainers, \* the request body's maintainers field, line 58
    response     \* the HTTP response of get_all_pods_info: None until it is sent

vars == << namespaces, pc, next, task, current, pods, writers, locked, arc,
           queries, log, result, maintainers, response >>

Occ == 1..Len(namespaces)

\* a future that has not been created yet
NoTask == [st |-> "none", ok |-> FALSE, items |-> << >>, rest |-> << >>, cur |-> None,
           rec |-> None]

\* pods returned so far over all list responses
RECURSIVE ListedUpTo(_)
ListedUpTo(n) == IF n = 0 THEN 0 ELSE Len(task[n].items) + ListedUpTo(n - 1)

PodsListed == ListedUpTo(Len(namespaces))

Init ==
    /\ namespaces \in UNION { [1..n -> Namespaces] : n \in 0..MaxNs }
    /\ pc = "start"
    /\ next = 1
    /\ task = [i \in 1..Len(namespaces) |-> NoTask]
    /\ current = 0
    /\ pods = << >>
    /\ writers = << >>
    /\ locked = 0
    /\ arc = 0
    /\ queries = << >>
    /\ log = << >>
    /\ result = None
    /\ maintainers = None
    /\ response = None

(* --------------------- get_pods_info, line 74-75 -------------------- *)

\* Client::try_default().await is Ok; the Arc<Mutex<Vec>> is created
ClientOk ==
    /\ pc = "start"
    /\ pc' = "fanout"
    /\ arc' = 1
    /\ UNCHANGED << namespaces, next, task, current, pods, writers, locked, queries,
                    log, result, maintainers,
                    response >>

\* Client::try_default().await is Err: the ? returns it
ClientErr ==
    /\ pc = "start"
    /\ pc' = "failed"
    /\ UNCHANGED << namespaces, next, task, current, pods, writers, locked, arc,
                    queries, log, result, maintainers,
                    response >>

(* ------------------ for_each_concurrent, line 76-81 ----------------- *)

\* the limit given to for_each_concurrent: None, written 0
Limit == 0

InFlight == Cardinality({ i \in Occ : task[i].st \notin {"none", "done"} })

\* mutant: for_each_concurrent(Some(1), ..), one namespace at a time
CanSpawnOneAtATime == InFlight < 1

\* for_each_concurrent pulls the next item while the limit allows
CanSpawn == Limit = 0 \/ InFlight < Limit

\* mutant: a namespace already queried is skipped
SpawnDeduplicated ==
    /\ pc = "fanout"
    /\ current = 0
    /\ next <= Len(namespaces)
    /\ IF \E k \in 1..Len(queries) : queries[k] = namespaces[next]
       THEN /\ task' = [task EXCEPT ![next].st = "done"]
            /\ UNCHANGED << queries, arc >>
       ELSE /\ task' = [task EXCEPT ![next].st = "awaiting"]
            /\ queries' = Append(queries, namespaces[next])
            /\ arc' = arc + 1
    /\ next' = next + 1
    /\ UNCHANGED << namespaces, pc, current, pods, writers, locked, log, result, maintainers,
                    response >>

\* the stream yields namespaces[next]; the closure clones the Arc and the new
\* future is polled up to its list call, where it suspends
Spawn ==
    /\ pc = "fanout"
    /\ current = 0
    /\ next <= Len(namespaces)
    /\ CanSpawn
    /\ task' = [task EXCEPT ![next].st = "awaiting"]
    /\ queries' = Append(queries, namespaces[next])
    /\ arc' = arc + 1
    /\ next' = next + 1
    /\ UNCHANGED << namespaces, pc, current, pods, writers, locked, log, result, maintainers,
                    response >>

\* api.list(..).await of future i resolves with Err
ResolveErr(i) ==
    /\ pc = "fanout"
    /\ current = 0
    /\ task[i].st = "awaiting"
    /\ task' = [task EXCEPT ![i].st = "matching", ![i].ok = FALSE]
    /\ current' = i
    /\ UNCHANGED << namespaces, pc, next, pods, writers, locked, arc, queries, log,
                    result, maintainers,
                    response >>

\* api.list(..).await of future i resolves with Ok(p)
ResolveOk(i) ==
    /\ pc = "fanout"
    /\ current = 0
    /\ task[i].st = "awaiting"
    /\ \E tpls \in DistinctSeqs(PodTemplates, MaxPods - PodsListed) :
          task' = [task EXCEPT ![i].st = "matching", ![i].ok = TRUE,
                               ![i].items = ListItems(namespaces[i], tpls),
                               ![i].rest = ListItems(namespaces[i], tpls)]
    /\ current' = i
    /\ UNCHANGED << namespaces, pc, next, pods, writers, locked, arc, queries, log,
                    result, maintainers,
                    response >>

(* --------------- the future of one namespace, line 82-142 ----------- *)

\* a panic unwinds out of the future, for_each_concurrent and get_pods_info
Panic ==
    /\ pc' = "panicked"
    /\ current' = 0

\* mutant: the query error is propagated (api.list(..).await?) instead of logged
ErrArmAborts(i) ==
    /\ pc = "fanout"
    /\ current = i
    /\ task[i].st = "matching"
    /\ ~task[i].ok
    /\ pc' = "failed"
    /\ current' = 0
    /\ UNCHANGED << namespaces, next, task, pods, writers, locked, arc, queries, log,
                    result, maintainers,
                    response >>

\* mutant: the failed query is awaited again until it succeeds
ErrArmRetries(i) ==
    /\ pc = "fanout"
    /\ current = i
    /\ task[i].st = "matching"
    /\ ~task[i].ok
    /\ task' = [task EXCEPT ![i].st = "awaiting"]
    /\ current' = 0
    /\ UNCHANGED << namespaces, pc, next, pods, writers, locked, arc, queries, log,
                    result, maintainers,
                    response >>

\* mutant: the Err arm drops the error without logging it
ErrArmSilent(i) ==
    /\ pc = "fanout"
    /\ current = i
    /\ task[i].st = "matching"
    /\ ~task[i].ok
    /\ task' = [task EXCEPT ![i].st = "done"]
    /\ arc' = arc - 1
    /\ current' = 0
    /\ UNCHANGED << namespaces, pc, next, pods, writers, locked, queries, log, result,
                    maintainers, response >>

\* match pods_in_namespace: the Err arm logs the error and the future ends,
\* dropping its clone of the Arc
ErrArm(i) ==
    /\ pc = "fanout"
    /\ current = i
    /\ task[i].st = "matching"
    /\ ~task[i].ok
    /\ log' = Append(log, namespaces[i])
    /\ task' = [task EXCEPT ![i].st = "done"]
    /\ arc' = arc - 1
    /\ current' = 0
    /\ UNCHANGED << namespaces, pc, next, pods, writers, locked, queries, result, maintainers,
                    response >>

\* match pods_in_namespace: the Ok arm starts the for loop over the filter
OkArm(i) ==
    /\ pc = "fanout"
    /\ current = i
    /\ task[i].st = "matching"
    /\ task[i].ok
    /\ task' = [task EXCEPT ![i].st = "iter"]
    /\ UNCHANGED << namespaces, pc, next, current, pods, writers, locked, arc, queries,
                    log, result, maintainers,
                    response >>

\* the filter of line 84-86 is called on the next item of the list
FilterPod(i) ==
    /\ pc = "fanout"
    /\ current = i
    /\ task[i].st = "iter"
    /\ task[i].rest # << >>
    /\ LET pod == Head(task[i].rest)
       IN  IF FilterPanics(pod)
           THEN /\ Panic
                /\ UNCHANGED task
           ELSE /\ task' = IF PhaseIsRunning(pod)
                           THEN [task EXCEPT ![i].st = "body", ![i].cur = Some(pod),
                                             ![i].rest = Tail(task[i].rest)]
                           ELSE [task EXCEPT ![i].rest = Tail(task[i].rest)]
                /\ UNCHANGED << pc, current >>
    /\ UNCHANGED << namespaces, next, pods, writers, locked, arc, queries, log, result, maintainers,
                    response >>

\* the loop body up to the PodComputeInfo of line 128-137
NormalizePod(i) ==
    /\ pc = "fanout"
    /\ current = i
    /\ task[i].st = "body"
    /\ LET pod == Unwrap(task[i].cur)
       IN  IF NormalizePanics(pod)
           THEN /\ Panic
                /\ UNCHANGED task
           ELSE /\ task' = [task EXCEPT ![i].st = "built", ![i].cur = None,
                                        ![i].rec = Some(ToPodComputeInfo(pod))]
                /\ UNCHANGED << pc, current >>
    /\ UNCHANGED << namespaces, next, pods, writers, locked, arc, queries, log, result, maintainers,
                    response >>

\* pods.lock().unwrap(), line 138: the guard is taken
Lock(i) ==
    /\ pc = "fanout"
    /\ current = i
    /\ task[i].st = "built"
    /\ locked = 0
    /\ locked' = i
    /\ task' = [task EXCEPT ![i].st = "locked"]
    /\ UNCHANGED << namespaces, pc, next, current, pods, writers, arc, queries, log,
                    result, maintainers,
                    response >>

\* mutant: the push replaces the collection's content
VecPushOverwrites(v, x) == << x >>

\* mutant: the record is inserted at the front
VecPushFront(v, x) == << x >> \o v

\* Vec::push
VecPush(v, x) == Append(v, x)

\* mutant: the record is pushed only when its maintainer is among the request's
\* maintainers
PushIfMaintained(i) ==
    /\ pc = "fanout"
    /\ current = i
    /\ task[i].st = "locked"
    /\ locked = i
    /\ IF \/ IsNone(maintainers)
          \/ \E k \in 1..Len(Unwrap(maintainers)) :
                Unwrap(maintainers)[k] = Unwrap(task[i].rec).maintainer
       THEN /\ pods' = VecPush(pods, Unwrap(task[i].rec))
            /\ writers' = Append(writers, i)
       ELSE UNCHANGED << pods, writers >>
    /\ task' = [task EXCEPT ![i].st = "pushed", ![i].rec = None]
    /\ UNCHANGED << namespaces, pc, next, current, locked, arc, queries, log, result,
                    maintainers, response >>

\* .push(pod_compute_info), line 138
Push(i) ==
    /\ pc = "fanout"
    /\ current = i
    /\ task[i].st = "locked"
    /\ locked = i
    /\ pods' = VecPush(pods, Unwrap(task[i].rec))
    /\ writers' = Append(writers, i)
    /\ task' = [task EXCEPT ![i].st = "pushed", ![i].rec = None]
    /\ UNCHANGED << namespaces, pc, next, current, locked, arc, queries, log, result, maintainers,
                    response >>

\* mutant: the guard is bound to a variable that outlives the statement
UnlockKeepsGuard(i) ==
    /\ pc = "fanout"
    /\ current = i
    /\ task[i].st = "pushed"
    /\ locked = i
    /\ task' = [task EXCEPT ![i].st = "iter"]
    /\ UNCHANGED << namespaces, pc, next, current, pods, writers, locked, arc, queries,
                    log, result, maintainers, response >>

\* the temporary MutexGuard is dropped at the end of the statement, line 138
Unlock(i) ==
    /\ pc = "fanout"
    /\ current = i
    /\ task[i].st = "pushed"
    /\ locked = i
    /\ locked' = 0
    /\ task' = [task EXCEPT ![i].st = "iter"]
    /\ UNCHANGED << namespaces, pc, next, current, pods, writers, arc, queries, log,
                    result, maintainers,
                    response >>

\* mutant: the future's clone of the Arc outlives the future
IterEndKeepsArc(i) ==
    /\ pc = "fanout"
    /\ current = i
    /\ task[i].st = "iter"
    /\ task[i].rest = << >>
    /\ task' = [task EXCEPT ![i].st = "done"]
    /\ current' = 0
    /\ UNCHANGED << namespaces, pc, next, pods, writers, locked, arc, queries, log,
                    result, maintainers, response >>

\* the filter iterator is exhausted: the future ends, dropping its Arc clone
IterEnd(i) ==
    /\ pc = "fanout"
    /\ current = i
    /\ task[i].st = "iter"
    /\ task[i].rest = << >>
    /\ task' = [task EXCEPT ![i].st = "done"]
    /\ arc' = arc - 1
    /\ current' = 0
    /\ UNCHANGED << namespaces, pc, next, pods, writers, locked, queries, log, result, maintainers,
                    response >>

(* ------------------------ the join, line 145-146 -------------------- *)

\* mutant: the join waits for the stream only, not for the futures
StreamExhausted == next > Len(namespaces)

\* for_each_concurrent(..).await is ready: the stream is exhausted and no
\* future is left
FanoutDone == next > Len(namespaces) /\ \A i \in Occ : task[i].st = "done"

\* Arc::try_unwrap(pods).unwrap().into_inner().unwrap(), line 146
Return ==
    /\ pc = "fanout"
    /\ current = 0
    /\ FanoutDone
    /\ IF arc = 1 /\ locked = 0
       THEN /\ pc' = "returned"
            /\ result' = Some(pods)
            /\ arc' = 0
       ELSE /\ pc' = "panicked"
            /\ UNCHANGED << result, arc >>
    /\ UNCHANGED << namespaces, next, task, current, pods, writers, locked, queries,
                    log, maintainers,
                    response >>

Next ==
    \/ ClientOk
    \/ ClientErr
    \/ Spawn
    \/ \E i \in Occ : ResolveErr(i)
    \/ \E i \in Occ : ResolveOk(i)
    \/ \E i \in Occ : ErrArm(i)
    \/ \E i \in Occ : OkArm(i)
    \/ \E i \in Occ : FilterPod(i)
    \/ \E i \in Occ : NormalizePod(i)
    \/ \E i \in Occ : Lock(i)
    \/ \E i \in Occ : Push(i)
    \/ \E i \in Occ : Unlock(i)
    \/ \E i \in Occ : IterEnd(i)
    \/ Return

Spec == Init /\ [][Next]_vars

\* the executor keeps polling a runnable future and every list call resolves
LiveSpec == Init /\ [][Next]_vars /\ WF_vars(Next)

(* ------------------- get_all_pods_info, line 62-68 ------------------ *)

\* the maintainers values a request body is drawn from: absent, empty, a list
MaintainerChoices == { None, Some(<< >>), Some(<< "team-b" >>) }

\* a request body is deserialized: maintainers and namespaces, lines 56-65
ReqInit ==
    /\ namespaces \in UNION { [1..n -> Namespaces] : n \in 0..MaxNs }
    /\ maintainers \in MaintainerChoices
    /\ pc = "start"
    /\ next = 1
    /\ task = [i \in 1..Len(namespaces) |-> NoTask]
    /\ current = 0
    /\ pods = << >>
    /\ writers = << >>
    /\ locked = 0
    /\ arc = 0
    /\ queries = << >>
    /\ log = << >>
    /\ result = None
    /\ response = None

\* get_pods_info returned Ok: unwrap() gives the Vec and Json(compute_info) is
\* the response, line 66-67
Respond ==
    /\ pc = "returned"
    /\ response' = Some([status |-> 200, body |-> Unwrap(result)])
    /\ pc' = "responded"
    /\ UNCHANGED << namespaces, next, task, current, pods, writers, locked, arc,
                    queries, log, result, maintainers >>

\* get_pods_info returned Err: unwrap() panics, line 66; the handler is
\* unwound and sends nothing
UnwrapErr ==
    /\ pc = "failed"
    /\ pc' = "aborted"
    /\ UNCHANGED << namespaces, next, task, current, pods, writers, locked, arc,
                    queries, log, result, maintainers, response >>

ReqNext ==
    \/ Next
    \/ Respond
    \/ UnwrapErr

\* one request to POST /api/compute-info/pods
ReqSpec == ReqInit /\ [][ReqNext]_vars

(* -------- one pod of any shape through the filter and the body ------ *)

\* most containers of the pod
MaxContainers == 2

\* the shapes of a container's resources: none, limits only, requests without
\* cpu or without memory, requests with and without limits
ContainerVariants ==
    { AppContainer,
      SidecarContainer,
      RawContainer("bare", None, None),
      RawContainer("limited", Some("limited:1"), Some(Resources(None, Some(GoodLimits)))),
      RawContainer("nocpu", None, Some(Resources(Some("memory" :> "64Mi"), Some(GoodLimits)))),
      RawContainer("nomem", None, Some(Resources(Some("cpu" :> "250m"), None))) }

StatusVariants == { None, Some([phase |-> None]), Phase("Running"), Phase("Pending") }

LabelVariants ==
    { None,
      Some(EmptyMap),
      Some("tier" :> "batch"),
      Some("maintainer" :> "team-a"),
      Some(("maintainer" :> "team-a") @@ ("tier" :> "batch")) }

\* the pods a list response can hold, as far as the code reads them
StructuredPods ==
    { RawPod("p", st, lab, node, cs) :
        st \in StatusVariants, lab \in LabelVariants, node \in { None, Some("node-1") },
        cs \in UNION { [1..k -> ContainerVariants] : k \in 0..MaxContainers } }
    \cup { [RawPod("p", st, lab, None, << >>) EXCEPT !.spec = None] :
             st \in StatusVariants, lab \in LabelVariants }

\* the list of namespace "a" has just resolved with one pod
PodInit ==
    /\ namespaces = << "a" >>
    /\ pc = "fanout"
    /\ next = 2
    /\ \E pod \in StructuredPods :
          task = << [st |-> "matching", ok |-> TRUE, items |-> ListItems("a", << pod >>),
                     rest |-> ListItems("a", << pod >>), cur |-> None, rec |-> None] >>
    /\ current = 1
    /\ pods = << >>
    /\ writers = << >>
    /\ locked = 0
    /\ arc = 2
    /\ queries = << "a" >>
    /\ log = << >>
    /\ result = None
    /\ maintainers = None
    /\ response = None

PodNext ==
    \/ \E i \in Occ : OkArm(i)
    \/ \E i \in Occ : FilterPod(i)
    \/ \E i \in Occ : NormalizePod(i)
    \/ \E i \in Occ : Lock(i)
    \/ \E i \in Occ : Push(i)
    \/ \E i \in Occ : Unlock(i)
    \/ \E i \in Occ : IterEnd(i)
    \/ Return

\* the filter and the loop body applied to one pod
PodSpec == PodInit /\ [][PodNext]_vars

(* ===================== properties of the program ==================== *)

\* the list response said the pod's phase is "Running"
ListedRunning(pod) == pod.status = Phase("Running")

\* the pods of a list response whose phase is "Running", in list order
RunningOf(items) == SelectSeq(items, ListedRunning)

\* the records of the running pods of a list response (none of them may
\* lack a required field)
RecordsOf(items) ==
    [k \in 1..Len(RunningOf(items)) |-> ToPodComputeInfo(RunningOf(items)[k])]

\* the entries of the shared collection pushed by future i, in order
RECURSIVE EntriesUpTo(_, _)
EntriesUpTo(i, k) ==
    IF k = 0 THEN << >>
    ELSE EntriesUpTo(i, k - 1) \o (IF writers[k] = i THEN << pods[k] >> ELSE << >>)

EntriesOf(i) == EntriesUpTo(i, Len(pods))

\* number of running pods over the successful list responses
RECURSIVE RunningUpTo(_)
RunningUpTo(n) ==
    IF n = 0 THEN 0
    ELSE RunningUpTo(n - 1) + (IF task[n].ok THEN Len(RunningOf(task[n].items)) ELSE 0)

TotalRunning == RunningUpTo(Len(namespaces))

\* occurrences of x in the sequence s
Count(x, s) == Cardinality({ k \in 1..Len(s) : s[k] = x })

\* occurrence i was queried and its query failed
QueryFailed(i) == task[i].st \in {"matching", "done"} /\ ~task[i].ok

\* occurrence i was queried and its query succeeded
QuerySucceeded(i) == task[i].st \notin {"none", "awaiting"} /\ task[i].ok

Returned == pc = "returned"

\* C1: every record of the collection get_pods_info returns was built from a
\* pod whose phase was exactly "Running" in a list response; a pod listed with
\* another phase has no record.
C1_OnlyRunningPods ==
    Returned =>
        \A k \in 1..Len(Unwrap(result)) :
            \E i \in Occ : \E j \in 1..Len(task[i].items) :
                /\ task[i].items[j].status = Phase("Running")
                /\ task[i].items[j].name = Some(Unwrap(result)[k].name)
                /\ task[i].items[j].namespace = Some(Unwrap(result)[k].namespace)

\* a non-running pod was listed and the call returned records
C1_Witness ==
    /\ Returned
    /\ Unwrap(result) # << >>
    /\ \E i \in Occ : \E j \in 1..Len(task[i].items) :
          task[i].items[j].status = Phase("Pending")

\* C2: a namespace whose list query fails contributes no entry and leaves the
\* others alone: the failing future ends without touching the collection, the
\* other futures or the state of the call, and in the returned collection the
\* entries of every occurrence are decided by its own list response only (none
\* for a failed query, the records of its running pods for a successful one).
C2_FailureIsIsolated ==
    /\ [][\A i \in Occ :
            (current = i /\ QueryFailed(i))
                => /\ pc' = "fanout"
                   /\ pods' = pods
                   /\ task'[i].st = "done"
                   /\ \A j \in Occ \ {i} : task'[j] = task[j]]_vars
    /\ [](Returned =>
            /\ Unwrap(result) = pods
            /\ \A i \in Occ :
                  EntriesOf(i) = IF task[i].ok THEN RecordsOf(task[i].items) ELSE << >>)

\* the call returned records of one namespace although another query failed
C2_Witness ==
    /\ Returned
    /\ \E i, j \in Occ :
          /\ QueryFailed(i)
          /\ QuerySucceeded(j)
          /\ EntriesOf(j) # << >>
          /\ EntriesOf(i) = << >>

\* C3: whenever get_pods_info returns, the length of its result is the sum of
\* the running-pod counts of the successfully queried occurrences.
C3_LengthIsRunningCount == Returned => Len(Unwrap(result)) = TotalRunning

\* namespace "a" lists two running pods and a pending one, the query of "b" fails
C3_Witness ==
    /\ Returned
    /\ namespaces = << "a", "b" >>
    /\ QuerySucceeded(1)
    /\ Len(task[1].items) = 3
    /\ Len(RunningOf(task[1].items)) = 2
    /\ QueryFailed(2)
    /\ Len(Unwrap(result)) = 2

\* future i is in the loop body with a running pod one of whose containers
\* declares no resources, no requests or no cpu / memory request
MissingRequest(i) ==
    /\ task[i].st = "body"
    /\ \E k \in 1..Len(Unwrap(Unwrap(task[i].cur).spec).containers) :
          ContainerPanics(Unwrap(Unwrap(task[i].cur).spec).containers[k])

\* the filter of future i is at a pod without a status or without a phase
MissingPhase(i) ==
    /\ task[i].st = "iter"
    /\ task[i].rest # << >>
    /\ (IsNone(Head(task[i].rest).status) \/ IsNone(Unwrap(Head(task[i].rest).status).phase))

\* C4: a running pod with a container that lacks a resource request is left out
\* of the result without ending the processing of the other pods and
\* namespaces: the call is never aborted at such a pod.
C4_MissingRequestSkipsPod == \A i \in Occ : MissingRequest(i) => pc # "panicked"

\* C5: a pod without a status or a phase fails alone: the call is never aborted
\* at such a pod, so the other running pods are still returned.
C5_MissingPhaseSkipsPod == \A i \in Occ : MissingPhase(i) => pc # "panicked"

Terminated == pc \in {"returned", "failed", "panicked"}

\* an upper bound on the steps future i can still take
StepsLeft(i) ==
    CASE task[i].st = "none" -> 5 * MaxPods + 4
      [] task[i].st = "awaiting" -> 5 * MaxPods + 3
      [] task[i].st = "matching" -> IF task[i].ok THEN 5 * Len(task[i].rest) + 2 ELSE 1
      [] task[i].st = "iter" -> 5 * Len(task[i].rest) + 1
      [] task[i].st = "body" -> 5 * Len(task[i].rest) + 5
      [] task[i].st = "built" -> 5 * Len(task[i].rest) + 4
      [] task[i].st = "locked" -> 5 * Len(task[i].rest) + 3
      [] task[i].st = "pushed" -> 5 * Len(task[i].rest) + 2
      [] OTHER -> 0

RECURSIVE StepsLeftUpTo(_)
StepsLeftUpTo(n) == IF n = 0 THEN 0 ELSE StepsLeft(n) + StepsLeftUpTo(n - 1)

\* an upper bound on the steps the call can still take
Measure ==
    StepsLeftUpTo(Len(namespaces))
        + (IF pc = "start" THEN 2 ELSE IF Terminated THEN 0 ELSE 1)

\* C6: provided every list query resolves, get_pods_info terminates for every
\* namespace list (by returning, or by unwinding): every step of the call
\* decreases a natural-number measure and only a terminated call has no step
\* left to take; a returned sequence is no longer than the number of running
\* pods over the queried occurrences, and for the empty list it is empty.
C6_Terminates ==
    /\ [][Measure' < Measure]_vars
    /\ [](Measure >= 0)
    /\ [](Terminated \/ ENABLED Next)
    /\ [](Returned =>
            /\ Len(Unwrap(result)) <= TotalRunning
            /\ (namespaces = << >> => Unwrap(result) = << >>))

\* the same under fairness: every behaviour in which the executor keeps polling
\* and every query resolves reaches the end of the call
Termination == <>Terminated

\* a call with the longest namespace list has returned a non-empty result
C6_Witness ==
    /\ Returned
    /\ Len(namespaces) = MaxNs
    /\ Unwrap(result) # << >>
    /\ Len(Unwrap(result)) = TotalRunning

\* future i can still append to the shared collection
CanStillAppend(i) == task[i].st # "done"

\* C7: the shared collection is taken out and returned only after every
\* namespace future has finished: line 146 is not reached, and the result is
\* not returned, while some future can still append or holds the lock.
C7_JoinBarrier ==
    (ENABLED Return \/ Returned) =>
        /\ next > Len(namespaces)
        /\ \A i \in Occ : ~CanStillAppend(i)
        /\ locked = 0

\* the result was returned after several futures had appended to it
C7_Witness ==
    /\ Returned
    /\ \E k, l \in 1..Len(writers) : writers[k] # writers[l]

\* the futures inside the critical section of line 138
InCritical == { i \in Occ : task[i].st \in {"locked", "pushed"} }

\* the items of future i's list response whose loop iteration is complete
Completed(i) ==
    SubSeq(task[i].items, 1,
           Len(task[i].items) - Len(task[i].rest)
             - (IF task[i].st \in {"body", "built", "locked"} THEN 1 ELSE 0))

\* C8: appends to the shared collection are mutually exclusive and none is
\* lost: at most one future is inside the critical section, it is the holder
\* of the lock, and the collection holds, for every future, exactly the records
\* of the running pods it has appended so far (so each is in the returned
\* collection exactly once).
C8_ExclusiveAppendsNoneLost ==
    /\ Cardinality(InCritical) <= 1
    /\ InCritical = (IF locked = 0 THEN {} ELSE {locked})
    /\ Len(writers) = Len(pods)
    /\ \A i \in Occ : EntriesOf(i) = RecordsOf(Completed(i))
    /\ (Returned => Unwrap(result) = pods)

\* one future holds the lock after another future has appended
C8_Witness ==
    /\ locked # 0
    /\ task[locked].st = "locked"
    /\ \E k \in 1..Len(writers) : writers[k] # locked

\* occurrences of record r among the running pods of the successful responses
RECURSIVE ListedCount(_, _)
ListedCount(r, n) ==
    IF n = 0 THEN 0
    ELSE ListedCount(r, n - 1) + (IF task[n].ok THEN Count(r, RecordsOf(task[n].items)) ELSE 0)

\* C9: every occurrence of a namespace is queried on its own and once: the
\* list calls issued are a prefix of the namespace list, all of it when the
\* call returns, and the returned collection holds each running pod once per
\* successful occurrence that listed it (k times for a namespace listed k
\* times).
C9_EveryOccurrenceQueriedOnce ==
    /\ Len(queries) <= Len(namespaces)
    /\ queries = SubSeq(namespaces, 1, Len(queries))
    /\ Len(queries) = next - 1
    /\ (Returned =>
          /\ queries = namespaces
          /\ \A k \in 1..Len(Unwrap(result)) :
                Count(Unwrap(result)[k], Unwrap(result))
                    = ListedCount(Unwrap(result)[k], Len(namespaces)))

\* a namespace listed twice, both lists successful and equal, has its running
\* pod twice in the result
C9_Witness ==
    /\ Returned
    /\ Len(namespaces) >= 2
    /\ namespaces[1] = namespaces[2]
    /\ QuerySucceeded(1)
    /\ QuerySucceeded(2)
    /\ task[1].items = task[2].items
    /\ RunningOf(task[1].items) # << >>
    /\ Count(RecordsOf(task[1].items)[1], Unwrap(result)) = 2

\* the queries that were issued and have not resolved
Outstanding == { i \in Occ : task[i].st = "awaiting" }

\* C10: namespaces are queried with unbounded concurrency: whenever the
\* combinator is polled, the next namespace's query can be issued whatever the
\* number of unresolved queries, every unresolved query can resolve (with Err
\* or Ok), and a resolved future runs on to its appends whatever the others
\* wait for.
C10_UnboundedConcurrency ==
    /\ (pc = "fanout" /\ current = 0) =>
          /\ (next <= Len(namespaces) => ENABLED Spawn)
          /\ \A j \in Outstanding : ENABLED ResolveErr(j) /\ ENABLED ResolveOk(j)
    /\ \A j \in Occ :
          (pc = "fanout" /\ current = j) =>
              ENABLED (\/ ErrArm(j) \/ OkArm(j) \/ FilterPod(j) \/ NormalizePod(j)
                       \/ Lock(j) \/ Push(j) \/ Unlock(j) \/ IterEnd(j))

\* every namespace's query is outstanding at once
C10_Witness ==
    /\ pc = "fanout"
    /\ Len(namespaces) = MaxNs
    /\ Outstanding = Occ

\* the handler has finished, with or without a response
HandlerDone == pc \in {"responded", "aborted", "panicked"}

\* the client could not be constructed
ClientFailed == pc \in {"failed", "aborted"}

\* C13: when the cluster client cannot be constructed the request is answered
\* with a failed (non-2xx) response: the handler ends with an error status,
\* without a list query and without an inventory body.
C13_ClientFailureIsErrorResponse ==
    (ClientFailed /\ HandlerDone) =>
        /\ IsSome(response)
        /\ Unwrap(response).status >= 300
        /\ queries = << >>

\* C14: the request's maintainers field is never applied: the response body is
\* the shared collection, which holds for every occurrence exactly the records
\* of its list response's running pods, whatever maintainers is (absent, empty
\* or a list) and whatever the records' maintainer; so two requests that differ
\* in maintainers only, with the same list responses, are answered alike.
C14_MaintainersNeverApplied ==
    pc = "responded" =>
        /\ Unwrap(response).status = 200
        /\ Unwrap(response).body = pods
        /\ Len(writers) = Len(pods)
        /\ \A i \in Occ :
              EntriesOf(i) = IF task[i].ok THEN RecordsOf(task[i].items) ELSE << >>

\* a request for the maintainer team-b is answered with a record of team-a and
\* a record without maintainer
C14_Witness ==
    /\ pc = "responded"
    /\ maintainers = Some(<< "team-b" >>)
    /\ \E k, l \in 1..Len(Unwrap(response).body) :
          /\ Unwrap(response).body[k].maintainer = "team-a"
          /\ Unwrap(response).body[l].maintainer = ""

\* C15: no lock is held across a suspension point: a future waiting for its
\* list query does not hold the mutex, the mutex is free whenever no future is
\* running, it is held only between the lock and the guard's drop of one
\* append, and a future that reaches its append is never blocked on it.
C15_NoLockAcrossAwait ==
    /\ \A i \in Occ : task[i].st = "awaiting" => locked # i
    /\ (current = 0 => locked = 0)
    /\ (locked # 0 => current = locked /\ task[locked].st \in {"locked", "pushed"})
    /\ \A i \in Occ : (pc = "fanout" /\ current = i /\ task[i].st = "built") => ENABLED Lock(i)

\* one future holds the lock while another waits for its list query
C15_Witness ==
    /\ locked # 0
    /\ \E j \in Occ : j # locked /\ task[j].st = "awaiting"

\* the occurrences whose failed query has been handled
FailedHandled == { i \in Occ : task[i].st = "done" /\ ~task[i].ok }

\* C16: besides the list queries the only effect is the failure log: one
\* message per occurrence whose query failed (a message is written as the
\* namespace of its occurrence), none for an occurrence whose query succeeded,
\* and a failed query never appends to the shared collection.
C16_OneLogPerFailure ==
    /\ Len(log) = Cardinality(FailedHandled)
    /\ \A ns \in Namespaces :
          Count(ns, log) = Cardinality({ i \in FailedHandled : namespaces[i] = ns })
    /\ Len(writers) = Len(pods)
    /\ \A i \in Occ : QueryFailed(i) => EntriesOf(i) = << >>
    /\ \A k \in 1..Len(writers) : task[writers[k]].ok

\* a call returned after one query failed and another appended records
C16_Witness ==
    /\ Returned
    /\ Len(log) = 1
    /\ \E i \in Occ : QuerySucceeded(i)
    /\ pods # << >>

\* C17: the pods of one namespace are appended one after the other without a
\* suspension in between: in the collection the records of one future are a
\* contiguous run, in the order of the running pods of its list response, and
\* no other future's record lies inside the run.
C17_ContiguousRuns ==
    /\ Len(writers) = Len(pods)
    /\ \A k, m \in 1..Len(writers) :
          (k < m /\ writers[k] = writers[m]) => \A l \in k..m : writers[l] = writers[k]
    /\ \A i \in Occ :
          \A k \in 1..Len(pods) :
              writers[k] = i =>
                  LET first == CHOOSE f \in 1..Len(pods) :
                                  writers[f] = i /\ \A g \in 1..(f - 1) : writers[g] # i
                  IN  /\ k - first + 1 <= Len(RunningOf(Completed(i)))
                      /\ pods[k].name = Unwrap(RunningOf(Completed(i))[k - first + 1].name)

\* the run of the second occurrence precedes the run of the first, each of
\* them in list order: the order of the runs is the order of completion
C17_Witness ==
    /\ Returned
    /\ Len(writers) >= 2
    /\ writers[1] = 2
    /\ writers[Len(writers)] = 1
    /\ \E i \in Occ : Len(RunningOf(task[i].items)) >= 2

\* C18: when the fan-out ends without a panic the extraction of line 146
\* cannot fail: while the fan-out runs the strong count is one plus the futures
\* alive, so at the join the owner holds the only reference and the mutex is
\* free; a panic comes from a pod lacking a required field only, never with
\* the guard held (no poisoning) and never from line 146.
C18_ExtractionCannotFail ==
    /\ (pc = "fanout" => arc = 1 + InFlight)
    /\ (ENABLED Return => arc = 1 /\ locked = 0)
    /\ (pc = "panicked" => /\ locked = 0
                           /\ \E i \in Occ : MissingRequest(i) \/ MissingPhase(i))
    /\ (Returned => IsSome(result) /\ arc = 0)

\* the longest namespace list, every query successful, and the call returned
\* a non-empty collection
C18_Witness ==
    /\ Returned
    /\ Len(namespaces) = MaxNs
    /\ \A i \in Occ : QuerySucceeded(i)
    /\ Unwrap(result) # << >>

\* the container declares a cpu and a memory request
DeclaresRequests(c) ==
    /\ IsSome(c.resources)
    /\ IsSome(Unwrap(c.resources).requests)
    /\ {"cpu", "memory"} \subseteq DOMAIN Unwrap(Unwrap(c.resources).requests)

\* a running pod all of whose containers declare both requests
Eligible(pod) ==
    /\ ListedRunning(pod)
    /\ IsSome(pod.spec)
    /\ \A n \in 1..Len(Unwrap(pod.spec).containers) :
          DeclaresRequests(Unwrap(pod.spec).containers[n])

\* the listed pods
Listed == UNION { { task[i].items[j] : j \in 1..Len(task[i].items) } : i \in Occ }

\* the records of the result that carry the pod's name and namespace
RecordsFor(pod) ==
    { Unwrap(result)[k] : k \in { k \in 1..Len(Unwrap(result)) :
                                    /\ Some(Unwrap(result)[k].name) = pod.name
                                    /\ Some(Unwrap(result)[k].namespace) = pod.namespace } }

\* C11: absent optional fields are no error: a running pod whose containers
\* all declare cpu and memory requests never aborts the call and is in the
\* result, with node_name "" when it has no node, maintainer "" when it has no
\* labels or no maintainer label, and metadata present whose labels are present
\* and are the empty map when the pod has no labels.
C11_OptionalFieldsDefault ==
    \A pod \in Listed :
        Eligible(pod) =>
            /\ pc # "panicked"
            /\ Returned =>
                  /\ RecordsFor(pod) # {}
                  /\ \A r \in RecordsFor(pod) :
                        /\ r.node_name = IF IsNone(Unwrap(pod.spec).node_name) THEN ""
                                         ELSE Unwrap(Unwrap(pod.spec).node_name)
                        /\ (IsNone(pod.labels) \/ "maintainer" \notin DOMAIN Unwrap(pod.labels))
                               => r.maintainer = ""
                        /\ (IsSome(pod.labels) /\ "maintainer" \in DOMAIN Unwrap(pod.labels))
                               => r.maintainer = Unwrap(pod.labels)["maintainer"]
                        /\ IsSome(r.metadata)
                        /\ IsSome(Unwrap(r.metadata).labels)
                        /\ IsNone(pod.labels) => DOMAIN Unwrap(Unwrap(r.metadata).labels) = {}
                        /\ IsSome(pod.labels) => Unwrap(Unwrap(r.metadata).labels) = Unwrap(pod.labels)

\* a running pod without node and without labels is in the returned result
C11_Witness ==
    /\ Returned
    /\ \E pod \in Listed :
          /\ Eligible(pod)
          /\ IsNone(pod.labels)
          /\ IsNone(Unwrap(pod.spec).node_name)
          /\ \E r \in RecordsFor(pod) : r.node_name = "" /\ r.maintainer = ""

\* C12: the containers of a record are the pod's containers, one entry each in
\* the order of the pod's spec, and requested_cpu / requested_memory are the
\* values under "cpu" / "memory" of the container's requests, unchanged, never
\* those of its limits.
C12_ContainersVerbatim ==
    \A pod \in Listed :
        (Eligible(pod) /\ Returned) =>
            /\ RecordsFor(pod) # {}
            /\ \A r \in RecordsFor(pod) :
                  LET cs == Unwrap(pod.spec).containers
                  IN  /\ Len(r.containers) = Len(cs)
                      /\ \A n \in 1..Len(cs) :
                            LET requests == Unwrap(Unwrap(cs[n].resources).requests)
                            IN  /\ r.containers[n].name = cs[n].name
                                /\ r.containers[n].image = cs[n].image
                                /\ r.containers[n].compute_resources.requested_cpu
                                      = requests["cpu"]
                                /\ r.containers[n].compute_resources.requested_memory
                                      = requests["memory"]

\* a pod with two containers is returned with "500m" / "256Mi" for the first,
\* whose limits differ, and "100m" / "64Mi" for the second
C12_Witness ==
    /\ Returned
    /\ Len(Unwrap(result)) = 1
    /\ Len(Unwrap(result)[1].containers) = 2
    /\ Unwrap(result)[1].containers[1].name = "app"
    /\ Unwrap(result)[1].containers[1].compute_resources.requested_cpu = "500m"
    /\ Unwrap(result)[1].containers[1].compute_resources.requested_memory = "256Mi"
    /\ Unwrap(result)[1].containers[2].name = "sidecar"
    /\ Unwrap(result)[1].containers[2].compute_resources.requested_cpu = "100m"
    /\ Unwrap(result)[1].containers[2].compute_resources.requested_memory = "64Mi"

=============================================================================
